---- MODULE Spec2Model ----
(***************************************************************************)
(* Model of SDL_mixer/music.c: the single-active-track music player, its   *)
(* caller-facing operations (one application thread) and the mixing        *)
(* callback (the audio thread), synchronised by the audio device lock.     *)
(*                                                                         *)
(* Only WAV tracks can be loaded (Mix_LoadMUSType_RW rejects every other   *)
(* type), so every track below has type MUS_WAV and the WAV_MUSIC cases of *)
(* the switch statements are the ones taken.  The WAV stream decoder is    *)
(* outside music.c; it is modelled by two values: whether the stream is    *)
(* active and the volume last dispatched to it.                            *)
(***************************************************************************)
EXTENDS Integers, FiniteSets, Sequences, TLC

VARIABLES
    music_playing,        \* the active track, or NULL
    music_loops,          \* remaining loop iterations
    music_volume,         \* master volume
    music_active,         \* FALSE while paused
    ms_per_step,          \* ms per callback; 0 = device not open
    music_finished_hook,  \* TRUE when a finished hook is registered
    fading,               \* per track: Mix_Fading
    fade_step,            \* per track
    fade_steps,           \* per track
    loaded,               \* per track: the Mix_Music structure is allocated
    wav_active,           \* decoder: WAVStream_Active()
    wav_volume,           \* decoder: last WAVStream_SetVolume value
    lock,                 \* holder of the audio lock
    pc,                   \* position of the application thread
    call,                 \* the call the application thread is in (arguments so far)
    ret,                  \* return value of the call that just completed
    mpc,                  \* position of the audio thread inside music_mixer
    mix_len,              \* len of the current (possibly nested) music_mixer run
    fired,                \* finished-hook invocations made by the last step
    play_req,             \* loops requested by the last successful Play, while no other call intervened
    restarts,             \* loop restarts since that Play
    app,                  \* the application: the tracks it loads, the calls and arguments it uses
    src,                  \* the SDL_RWops stream handed to the loader
    load,                 \* the load call made on that stream: arguments and outcome
    obs                   \* what has been observed of the current callback and of the last fade-out request

vars == <<music_playing, music_loops, music_volume, music_active, ms_per_step,
          music_finished_hook, fading, fade_step, fade_steps, loaded,
          wav_active, wav_volume, lock, pc, call, ret, mpc, mix_len, fired,
          play_req, restarts, app, src, load, obs>>

(* ------------------------------ bounds -------------------------------- *)
MaxLoops == 2
BufLen == 2
MaxStart == 2

(* ----------------------------- constants ------------------------------ *)
MIX_MAX_VOLUME == 128

NULL == "NULL"
Tracks == {"t1", "t2"}
MIX_NO_FADING == "MIX_NO_FADING"
MIX_FADING_OUT == "MIX_FADING_OUT"
MIX_FADING_IN == "MIX_FADING_IN"

(* ------------------------------- inputs ------------------------------- *)
\* One application works one track with every call and argument; the other
\* works two tracks with the calls that start, replace, fade, stop and free.
\* With 512 samples at 44100 Hz a callback step is 11 ms: 5 ms is a fade of
\* no step, 22 ms a fade of two.
AllOps == {"LoadMUS", "FadeInMusicPos", "FreeMusic", "HaltMusic", "FadeOutMusic",
           "VolumeMusic", "PauseMusic", "ResumeMusic", "HookMusicFinished",
           "PlayingMusic", "open_music", "close_music"}

OneTrackApp ==
    [tracks |-> {"t1"}, ops |-> AllOps,
     loops |-> (-1)..MaxLoops, fadeInMs |-> {0, 5, 22}, fadeOutMs |-> {0, 5, 22},
     positions |-> {0, 1}, volumes |-> {-1, 96, 200}, hooks |-> BOOLEAN]

TwoTrackApp ==
    [tracks |-> {"t1", "t2"},
     ops |-> AllOps \ {"VolumeMusic", "close_music"},
     loops |-> {0, MaxLoops}, fadeInMs |-> {0, 22}, fadeOutMs |-> {0, 22},
     positions |-> {0}, volumes |-> {}, hooks |-> {TRUE}]

Apps == {OneTrackApp, TwoTrackApp}

Uses(op) == op \in app.ops

DeviceSpecs == {[samples |-> 512, freq |-> 44100]}

NoCall == [op |-> "none", music |-> NULL, loops |-> 0, ms |-> 0, position |-> 0,
           volume |-> 0, prev |-> 0, waited |-> FALSE, err |-> ""]
NoReq == [valid |-> FALSE, loops |-> 0]

\* incs: increments of fade_step made so far by the device callback in progress;
\* fo: the last call was a Mix_FadeOutMusic that began a fade-out of a track
\* that was not fading; calls: the callbacks that have run the track since
NoObs == [incs |-> 0, fo |-> FALSE, calls |-> 0]

Min(a, b) == IF a < b THEN a ELSE b

\* C integer division (truncation toward zero), b # 0
CDiv(a, b) ==
    IF a >= 0 /\ b > 0 THEN a \div b
    ELSE IF a < 0 /\ b > 0 THEN -((-a) \div b)
    ELSE IF a >= 0 /\ b < 0 THEN -(a \div (-b))
    ELSE (-a) \div (-b)

(* ---------------- the state the internal functions work on ------------ *)
St == [playing |-> music_playing, loops |-> music_loops, fading |-> fading,
       fade_step |-> fade_step, fade_steps |-> fade_steps,
       wav_active |-> wav_active, wav_volume |-> wav_volume,
       fired |-> 0, restarts |-> restarts]

Commit(S) ==
    /\ music_playing' = S.playing
    /\ music_loops' = S.loops
    /\ fading' = S.fading
    /\ fade_step' = S.fade_step
    /\ fade_steps' = S.fade_steps
    /\ wav_active' = S.wav_active
    /\ wav_volume' = S.wav_volume
    /\ fired' = S.fired
    /\ restarts' = S.restarts

CallHook_Unchecked(S) == [S EXCEPT !.fired = @ + 1]

\* if ( music_finished_hook ) music_finished_hook();
CallHook(S) == IF music_finished_hook THEN [S EXCEPT !.fired = @ + 1] ELSE S

music_internal_volume(S, volume) == [S EXCEPT !.wav_volume = volume]

music_internal_initialize_volume(S) ==
    IF S.fading[S.playing] = MIX_FADING_IN
    THEN music_internal_volume(S, 0)
    ELSE music_internal_volume(S, music_volume)

music_internal_halt(S) ==
    [S EXCEPT !.wav_active = FALSE,
              !.fading[S.playing] = MIX_NO_FADING,
              !.playing = NULL]

music_internal_position_Seeks(position) == 0

\* the switch has only a default case: no backend implements positioning
music_internal_position(position) == -1

music_internal_playing(S) == S.playing # NULL /\ S.wav_active

PositionFails(position) == position > 0 /\ music_internal_position(position) < 0

music_internal_play(S, music, position) ==
    LET S1 == IF S.playing # NULL THEN music_internal_halt(S) ELSE S
        S2 == [S1 EXCEPT !.playing = music]
        S3 == music_internal_initialize_volume(S2)
        S4 == [S3 EXCEPT !.wav_active = TRUE]
        retval == IF PositionFails(position) THEN -1 ELSE 0
    IN  [st |-> IF retval < 0 THEN [S4 EXCEPT !.playing = NULL] ELSE S4,
         retval |-> retval]

LoopsAfterRestart_Kept(loops) == loops

LoopsAfterRestart(loops) == IF loops > 0 THEN loops - 1 ELSE loops

music_halt_or_loop_NoRestore(S) ==
    IF ~music_internal_playing(S)
    THEN IF S.loops # 0
         THEN LET S1 == [S EXCEPT !.loops = LoopsAfterRestart(S.loops)]
                  S2 == music_internal_play(S1, S1.playing, 0).st
              IN  [S2 EXCEPT !.restarts = Min(@ + 1, MaxLoops + 1)]
         ELSE CallHook(music_internal_halt(S))
    ELSE S

music_halt_or_loop(S) ==
    IF ~music_internal_playing(S)
    THEN IF S.loops # 0
         THEN LET S1 == [S EXCEPT !.loops = LoopsAfterRestart(S.loops)]
                  current_fade == S1.fading[S1.playing]
                  S2 == music_internal_play(S1, S1.playing, 0).st
              IN  [S2 EXCEPT !.fading[S1.playing] = current_fade,
                             !.restarts = Min(@ + 1, MaxLoops + 1)]
         ELSE CallHook(music_internal_halt(S))
    ELSE S

(* ------------------------- streams and loading ------------------------ *)
MUS_NONE == "MUS_NONE"
MUS_WAV == "MUS_WAV"
MUS_MOD == "MUS_MOD"
MUS_MID == "MUS_MID"
MUS_OGG == "MUS_OGG"
MUS_MP3 == "MUS_MP3"
MUS_FLAC == "MUS_FLAC"
MusicTypes == {MUS_NONE, MUS_WAV, MUS_MOD, MUS_MID, MUS_OGG, MUS_MP3, MUS_FLAC}

\* an SDL_RWops: the bytes of the source, the read position, and whether it
\* has been closed; `null` is the NULL pointer
NullStream == [null |-> TRUE, data |-> <<>>, pos |-> 0, open |-> FALSE]

NoLoad == [pc |-> "idle", fn |-> "none", type |-> MUS_NONE, freesrc |-> FALSE,
           start |-> 0, avail |-> 0, music |-> FALSE, result |-> MUS_NONE,
           err |-> "", failure |-> "none"]

\* the magic strings, as bytes
RIFF == <<82, 73, 70, 70>>
WAVE == <<87, 65, 86, 69>>
FORM == <<70, 79, 82, 77>>
OggS == <<79, 103, 103, 83>>
fLaC == <<102, 76, 97, 67>>
MThd == <<77, 84, 104, 100>>
ID3 == <<73, 68, 51>>

\* b & 0xf0, b & 0x0c, b & 0x06 for a byte b
AndF0(b) == (b \div 16) * 16
And0C(b) == ((b \div 4) % 4) * 4
And06(b) == ((b \div 2) % 4) * 2

\* SDL_RWread(src, buf, 1, n): reads what there is, up to n bytes
SDL_RWread(s, n) ==
    LET k == Min(n, Len(s.data) - s.pos)
    IN  [src |-> [s EXCEPT !.pos = @ + k],
         bytes |-> SubSeq(s.data, s.pos + 1, s.pos + k),
         count |-> k]

SDL_RWseek(s, offset) == [s EXCEPT !.pos = offset]

SDL_RWclose(s) == [s EXCEPT !.open = FALSE]

detect_mp3_SyncOnly(magic) ==
    SubSeq(magic, 1, 3) = ID3 \/ (magic[1] = 255 /\ AndF0(magic[2]) = 240)

detect_mp3(magic) ==
    IF SubSeq(magic, 1, 3) = ID3 THEN TRUE
    ELSE ~ \/ magic[1] # 255
           \/ AndF0(magic[2]) # 240
           \/ AndF0(magic[3]) = 0
           \/ AndF0(magic[3]) = 240
           \/ And0C(magic[3]) = 12
           \/ And06(magic[2]) = 0

\* lines 268-299: the ordered rules on the bytes read
MagicType(magic, moremagic) ==
    IF (magic = RIFF /\ SubSeq(moremagic, 5, 8) = WAVE) \/ magic = FORM THEN MUS_WAV
    ELSE IF magic = OggS THEN MUS_OGG
    ELSE IF magic = fLaC THEN MUS_FLAC
    ELSE IF magic = MThd THEN MUS_MID
    ELSE IF detect_mp3(magic) THEN MUS_MP3
    ELSE MUS_MOD

detect_music_type(s) ==
    LET start == s.pos
        R1 == SDL_RWread(s, 4)
        R2 == SDL_RWread(R1.src, 8)
    IN  IF R1.count # 4
        THEN [type |-> MUS_NONE, src |-> R1.src, err |-> "Couldn't read from RWops"]
        ELSE IF R2.count # 8
        THEN [type |-> MUS_NONE, src |-> R2.src, err |-> "Couldn't read from RWops"]
        ELSE [type |-> MagicType(R1.bytes, R2.bytes),
              src |-> SDL_RWseek(R2.src, start), err |-> ""]

CloseIfOwned(s, freesrc) == IF freesrc THEN SDL_RWclose(s) ELSE s

\* lines 411-419
LoadCleanup(s, start, freesrc) ==
    IF freesrc THEN SDL_RWclose(s) ELSE SDL_RWseek(s, start)

\* Mix_LoadMUSType_RW(src, type, freesrc); SDL_malloc succeeds or not, and
\* WAVStream_LoadSong_RW accepts the payload or not, leaving the stream at
\* wave_pos
Mix_LoadMUSType_RW(s, type, freesrc, malloc_ok, wave_ok, wave_pos) ==
    IF s.null
    THEN [music |-> FALSE, src |-> s, err |-> "RWops pointer is NULL", failure |-> "null"]
    ELSE
    LET start == s.pos
        D == IF type = MUS_NONE THEN detect_music_type(s)
             ELSE [type |-> type, src |-> s, err |-> ""]
    IN  IF D.type = MUS_NONE
        THEN [music |-> FALSE, src |-> CloseIfOwned(D.src, freesrc), err |-> D.err,
              failure |-> "short read"]
        ELSE IF ~malloc_ok
        THEN [music |-> FALSE, src |-> CloseIfOwned(D.src, freesrc),
              err |-> "Out of memory", failure |-> "allocation"]
        ELSE IF D.type # MUS_WAV
        THEN [music |-> FALSE, src |-> LoadCleanup(D.src, start, freesrc),
              err |-> "Unrecognized music format", failure |-> "no decoder"]
        ELSE IF ~wave_ok
        THEN [music |-> FALSE,
              src |-> LoadCleanup(SDL_RWseek(D.src, wave_pos), start, freesrc),
              err |-> D.err, failure |-> "rejected"]
        ELSE [music |-> TRUE, src |-> SDL_RWseek(D.src, wave_pos), err |-> D.err,
              failure |-> "none"]

(* ------------------------------- Init --------------------------------- *)
Init ==
    /\ music_playing = NULL
    /\ music_loops = 0
    /\ music_volume = MIX_MAX_VOLUME
    /\ music_active = TRUE
    /\ ms_per_step = 0
    /\ music_finished_hook = FALSE
    /\ fading = [t \in Tracks |-> MIX_NO_FADING]
    /\ fade_step = [t \in Tracks |-> 0]
    /\ fade_steps = [t \in Tracks |-> 0]
    /\ loaded = [t \in Tracks |-> FALSE]
    /\ wav_active = FALSE
    /\ wav_volume = MIX_MAX_VOLUME
    /\ lock = "free"
    /\ pc = "idle"
    /\ call = NoCall
    /\ ret = 0
    /\ mpc = "idle"
    /\ mix_len = 0
    /\ fired = 0
    /\ play_req = NoReq
    /\ restarts = 0
    /\ app \in Apps
    /\ src = NullStream
    /\ load = NoLoad
    /\ obs = NoObs

(* ------------------------- the mixing callback ------------------------ *)
MixerReturn == lock' = "free" /\ mpc' = "idle" /\ mix_len' = 0

\* the device callback has returned
Returned(o) == [o EXCEPT !.incs = 0]

\* the audio device invokes music_mixer(udata, stream, len) holding the lock
MixerEnter ==
    /\ mpc = "idle" /\ lock = "free"
    /\ lock' = "audio" /\ mpc' = "fade" /\ mix_len' = BufLen
    /\ Commit(St)
    /\ UNCHANGED <<music_volume, music_active, ms_per_step, music_finished_hook,
                   loaded, pc, call, ret, play_req, app, src, load, obs>>

FadeVolume(f, step, steps) ==
    IF f = MIX_FADING_OUT
    THEN CDiv(music_volume * (steps - step), steps)
    ELSE CDiv(music_volume * step, steps)

FadeContinues(step, steps) == step < steps

MixerFadeStep_NoHalt(S) ==
    LET m == S.playing
        old == S.fade_step[m]
        S1 == [S EXCEPT !.fade_step[m] = old + 1]
    IN  IF S.fading[m] = MIX_NO_FADING
        THEN [st |-> S, returned |-> FALSE]
        ELSE IF FadeContinues(old, S.fade_steps[m])
        THEN [st |-> music_internal_volume(S1,
                        FadeVolume(S.fading[m], old + 1, S.fade_steps[m])),
              returned |-> FALSE]
        ELSE IF S.fading[m] = MIX_FADING_OUT
        THEN [st |-> S1, returned |-> FALSE]
        ELSE [st |-> [S1 EXCEPT !.fading[m] = MIX_NO_FADING], returned |-> FALSE]

\* lines 151-173, S.playing # NULL
MixerFadeStep(S) ==
    LET m == S.playing
        old == S.fade_step[m]
        S1 == [S EXCEPT !.fade_step[m] = old + 1]
    IN  IF S.fading[m] = MIX_NO_FADING
        THEN [st |-> S, returned |-> FALSE]
        ELSE IF FadeContinues(old, S.fade_steps[m])
        THEN [st |-> music_internal_volume(S1,
                        FadeVolume(S.fading[m], old + 1, S.fade_steps[m])),
              returned |-> FALSE]
        ELSE IF S.fading[m] = MIX_FADING_OUT
        THEN [st |-> CallHook(music_internal_halt(S1)), returned |-> TRUE]
        ELSE [st |-> [S1 EXCEPT !.fading[m] = MIX_NO_FADING], returned |-> FALSE]

MixerActive_Paused == music_playing # NULL

\* if ( music_playing && music_active )
MixerActive == music_playing # NULL /\ music_active

MixerFade ==
    /\ mpc = "fade"
    /\ IF MixerActive
       THEN LET R == MixerFadeStep(St)
                o == [obs EXCEPT
                        !.calls = IF obs.fo /\ mix_len = BufLen
                                  THEN Min(@ + 1, fade_steps[music_playing] + 2)
                                  ELSE @,
                        !.incs = IF R.st.fade_step # fade_step THEN @ + 1 ELSE @]
            IN  /\ Commit(R.st)
                /\ IF R.returned
                   THEN MixerReturn /\ obs' = Returned(o)
                   ELSE mpc' = "produce" /\ obs' = o /\ UNCHANGED <<lock, mix_len>>
       ELSE Commit(St) /\ MixerReturn /\ obs' = Returned(obs)
    /\ UNCHANGED <<music_volume, music_active, ms_per_step, music_finished_hook,
                   loaded, pc, call, ret, play_req, app, src, load>>

SeamlessLoop_Whole(left, len) == left > 0

\* left > 0 && left < len
SeamlessLoop(left, len) == left > 0 /\ left < len

\* lines 175-197; WAVStream_PlaySome leaves `left` bytes unfilled and the
\* stream active or not
MixerProduce ==
    /\ mpc = "produce"
    /\ LET S1 == music_halt_or_loop(St)
       IN  IF ~music_internal_playing(S1)
           THEN Commit(S1) /\ MixerReturn /\ obs' = Returned(obs)
           ELSE \E left \in 0..mix_len, act \in BOOLEAN :
                  LET S2 == [S1 EXCEPT !.wav_active = act]
                      S3 == IF SeamlessLoop(left, mix_len)
                            THEN music_halt_or_loop(S2) ELSE S2
                  IN  /\ Commit(S3)
                      /\ IF SeamlessLoop(left, mix_len) /\ music_internal_playing(S3)
                         THEN mpc' = "fade" /\ mix_len' = left /\ UNCHANGED <<lock, obs>>
                         ELSE MixerReturn /\ obs' = Returned(obs)
    /\ UNCHANGED <<music_volume, music_active, ms_per_step, music_finished_hook,
                   loaded, pc, call, ret, play_req, app, src, load>>

(* ------------------------ the application thread ---------------------- *)
LoadedOrNull == {NULL} \cup {t \in Tracks : loaded[t]}

\* the application starts call `op`
Calls(op) == pc = "idle" /\ Uses(op)

\* the audio thread is untouched by a step of the application thread
AudioIdle == UNCHANGED <<mpc, mix_len, app, src, load>>

\* a new call: the fade-out request is no longer the last one
ObsReset == obs' = [obs EXCEPT !.fo = FALSE, !.calls = 0]

\* Mix_LoadMUSType_RW succeeding: a fresh Mix_Music of type MUS_WAV
LoadMUS ==
    /\ Calls("LoadMUS")
    /\ \E t \in app.tracks :
         /\ ~loaded[t]
         /\ loaded' = [loaded EXCEPT ![t] = TRUE]
         /\ call' = [NoCall EXCEPT !.op = "LoadMUS", !.music = t]
    /\ pc' = "done" /\ ret' = 0 /\ play_req' = NoReq /\ ObsReset
    /\ Commit(St) /\ AudioIdle
    /\ UNCHANGED <<music_volume, music_active, ms_per_step, music_finished_hook, lock>>

\* SDL_LockAudio() of the call in progress
LockPcs == {"fi_lock", "fi_relock", "fr_lock", "fr_relock", "ha_lock", "fo_lock",
            "vo_lock", "hk_lock", "pl_lock"}

AfterLock(p) ==
    CASE p = "fi_lock" -> "fi_locked"
      [] p = "fi_relock" -> "fi_locked"
      [] p = "fr_lock" -> "fr_check"
      [] p = "fr_relock" -> "fr_loop"
      [] p = "ha_lock" -> "ha_locked"
      [] p = "fo_lock" -> "fo_locked"
      [] p = "vo_lock" -> "vo_locked"
      [] p = "hk_lock" -> "hk_locked"
      [] p = "pl_lock" -> "pl_locked"

SDL_LockAudio ==
    /\ pc \in LockPcs /\ lock = "free"
    /\ lock' = "caller" /\ pc' = AfterLock(pc)
    /\ Commit(St) /\ AudioIdle
    /\ UNCHANGED <<music_volume, music_active, ms_per_step, music_finished_hook,
                   loaded, call, ret, play_req, obs>>

\* the call returns to the application
Return ==
    /\ pc = "done"
    /\ pc' = "idle" /\ call' = NoCall /\ ret' = 0
    /\ Commit(St) /\ AudioIdle
    /\ UNCHANGED <<music_volume, music_active, ms_per_step, music_finished_hook,
                   loaded, lock, play_req, obs>>

(* ---- Mix_FadeInMusicPos (Mix_FadeInMusic, Mix_PlayMusic) ---- *)
FadeInRejects_DeviceOnly(music) == ms_per_step = 0

FadeInRejects(music) == ms_per_step = 0 \/ music = NULL

FadeInError(music) ==
    IF ms_per_step = 0 THEN "Audio device hasn't been opened"
    ELSE "music parameter was NULL"

\* lines 529-547: the checks and the set-up of the track's fade fields
FadeInMusicPos_Entry ==
    /\ Calls("FadeInMusicPos")
    /\ \E music \in LoadedOrNull, ms \in app.fadeInMs :
         IF FadeInRejects(music)
         THEN /\ pc' = "done" /\ ret' = -1
              /\ call' = [NoCall EXCEPT !.op = "FadeInMusicPos", !.music = music,
                                        !.ms = ms, !.err = FadeInError(music)]
              /\ Commit(St)
         ELSE /\ pc' = "fi_lock" /\ ret' = 0
              /\ call' = [NoCall EXCEPT !.op = "FadeInMusicPos", !.music = music,
                                        !.ms = ms]
              /\ Commit([St EXCEPT
                    !.fading[music] = IF ms # 0 THEN MIX_FADING_IN ELSE MIX_NO_FADING,
                    !.fade_step[music] = 0,
                    !.fade_steps[music] = CDiv(ms, ms_per_step)])
    /\ play_req' = NoReq /\ ObsReset /\ AudioIdle
    /\ UNCHANGED <<music_volume, music_active, ms_per_step, music_finished_hook,
                   loaded, lock>>

\* while ( music_playing && (music_playing->fading == MIX_FADING_OUT) )
FadeInMustWait == music_playing # NULL /\ fading[music_playing] = MIX_FADING_OUT

NormalizeLoops_Kept(loops) == loops

NormalizeLoops(loops) == IF loops = 1 THEN 0 ELSE loops

\* lines 552-564, entered with the lock held
FadeInMusicPos_Locked ==
    /\ pc = "fi_locked"
    /\ IF FadeInMustWait
       THEN /\ pc' = "fi_relock"
            /\ call' = [call EXCEPT !.waited = TRUE]
            /\ Commit(St)
            /\ UNCHANGED <<music_active, ret, play_req>>
       ELSE \E loops \in app.loops, position \in app.positions :
              LET R == music_internal_play([St EXCEPT !.loops = NormalizeLoops(loops)],
                                           call.music, position)
              IN  /\ Commit([R.st EXCEPT !.restarts = 0])
                  /\ music_active' = TRUE
                  /\ pc' = "done" /\ ret' = R.retval
                  /\ call' = [call EXCEPT !.loops = loops, !.position = position,
                                !.err = IF R.retval < 0
                                        THEN "Position not implemented for music type"
                                        ELSE ""]
                  /\ play_req' = IF R.retval = 0
                                 THEN [valid |-> TRUE, loops |-> loops] ELSE NoReq
    /\ lock' = "free" /\ AudioIdle
    /\ UNCHANGED <<music_volume, ms_per_step, music_finished_hook, loaded, obs>>

(* ---- Mix_FreeMusic ---- *)
FreeMusic_Entry ==
    /\ Calls("FreeMusic")
    /\ \E music \in LoadedOrNull :
         /\ call' = [NoCall EXCEPT !.op = "FreeMusic", !.music = music]
         /\ pc' = IF music = NULL THEN "done" ELSE "fr_lock"
    /\ ret' = 0 /\ play_req' = NoReq /\ ObsReset
    /\ Commit(St) /\ AudioIdle
    /\ UNCHANGED <<music_volume, music_active, ms_per_step, music_finished_hook,
                   loaded, lock>>

FreeMustWait_Never(music) == FALSE

\* while ( music->fading == MIX_FADING_OUT )
FreeMustWait(music) == fading[music] = MIX_FADING_OUT

\* lines 429-440: "fr_check" is the first test, "fr_loop" the loop after a sleep
FreeMusic_Locked ==
    /\ pc \in {"fr_check", "fr_loop"}
    /\ IF pc = "fr_check" /\ call.music # music_playing
       THEN pc' = "fr_release" /\ Commit(St) /\ UNCHANGED call
       ELSE IF FreeMustWait(call.music)
       THEN /\ pc' = "fr_relock"
            /\ call' = [call EXCEPT !.waited = TRUE]
            /\ Commit(St)
       ELSE /\ pc' = "fr_release"
            /\ Commit(IF call.music = music_playing
                      THEN music_internal_halt(St) ELSE St)
            /\ UNCHANGED call
    /\ lock' = "free" /\ AudioIdle
    /\ UNCHANGED <<music_volume, music_active, ms_per_step, music_finished_hook,
                   loaded, ret, play_req, obs>>

\* lines 441-453: WAVStream_FreeSong and SDL_free
FreeMusic_Release ==
    /\ pc = "fr_release"
    /\ loaded' = [loaded EXCEPT ![call.music] = FALSE]
    /\ Commit([St EXCEPT !.fading[call.music] = MIX_NO_FADING,
                         !.fade_step[call.music] = 0,
                         !.fade_steps[call.music] = 0])
    /\ pc' = "done" /\ AudioIdle
    /\ UNCHANGED <<music_volume, music_active, ms_per_step, music_finished_hook,
                   lock, call, ret, play_req, obs>>

(* ---- Mix_HaltMusic, also reached from Mix_FadeOutMusic and close_music ---- *)
HaltMusic_Entry ==
    /\ Calls("HaltMusic")
    /\ pc' = "ha_lock" /\ call' = [NoCall EXCEPT !.op = "HaltMusic"]
    /\ ret' = 0 /\ play_req' = NoReq /\ ObsReset
    /\ Commit(St) /\ AudioIdle
    /\ UNCHANGED <<music_volume, music_active, ms_per_step, music_finished_hook,
                   loaded, lock>>

HaltMusic_Locked ==
    /\ pc = "ha_locked"
    /\ Commit(IF music_playing # NULL
              THEN CallHook(music_internal_halt(St)) ELSE St)
    /\ lock' = "free"
    /\ pc' = IF call.op = "close_music" THEN "cl_finish" ELSE "done"
    /\ ret' = IF call.op = "FadeOutMusic" THEN 1 ELSE 0
    /\ AudioIdle
    /\ UNCHANGED <<music_volume, music_active, ms_per_step, music_finished_hook,
                   loaded, call, play_req, obs>>

(* ---- Mix_FadeOutMusic ---- *)
FadeOutMusic_Entry ==
    /\ Calls("FadeOutMusic")
    /\ \E ms \in app.fadeOutMs :
         /\ call' = [NoCall EXCEPT !.op = "FadeOutMusic", !.ms = ms]
         /\ pc' = IF ms_per_step = 0 THEN "done"
                  ELSE IF ms <= 0 THEN "ha_lock" ELSE "fo_lock"
    /\ ret' = 0 /\ play_req' = NoReq /\ ObsReset
    /\ Commit(St) /\ AudioIdle
    /\ UNCHANGED <<music_volume, music_active, ms_per_step, music_finished_hook,
                   loaded, lock>>

FadeOutSteps(ms) == CDiv(ms + ms_per_step - 1, ms_per_step)

\* lines 706-715: the progress already made, converted to the new step count
ElapsedSteps(f, step, old_fade_steps) ==
    IF f = MIX_FADING_OUT THEN step ELSE old_fade_steps - step + 1

\* lines 701-721; a division by a zero old_fade_steps kills the process
FadeOutMusic_Locked ==
    /\ pc = "fo_locked"
    /\ IF music_playing = NULL
       THEN Commit(St) /\ pc' = "done" /\ ret' = 0 /\ lock' = "free" /\ UNCHANGED obs
       ELSE LET m == music_playing
                new_steps == FadeOutSteps(call.ms)
                old_fade_steps == fade_steps[m]
            IN  IF fading[m] # MIX_NO_FADING /\ old_fade_steps = 0
                THEN Commit(St) /\ pc' = "fault" /\ UNCHANGED <<ret, lock, obs>>
                ELSE /\ Commit([St EXCEPT
                          !.fade_step[m] =
                              IF fading[m] = MIX_NO_FADING THEN 0
                              ELSE CDiv(ElapsedSteps(fading[m], fade_step[m], old_fade_steps)
                                          * new_steps, old_fade_steps),
                          !.fading[m] = MIX_FADING_OUT,
                          !.fade_steps[m] = new_steps])
                     /\ pc' = "done" /\ ret' = 1 /\ lock' = "free"
                     /\ obs' = [obs EXCEPT !.fo = (fading[m] = MIX_NO_FADING),
                                           !.calls = 0]
    /\ AudioIdle
    /\ UNCHANGED <<music_volume, music_active, ms_per_step, music_finished_hook,
                   loaded, call, play_req>>

(* ---- Mix_VolumeMusic ---- *)
ClampVolume_Kept(volume) == volume

ClampVolume(volume) == IF volume > MIX_MAX_VOLUME THEN MIX_MAX_VOLUME ELSE volume

VolumeIsQuery(volume) == volume < 0

\* lines 637-644
VolumeMusic_Entry ==
    /\ Calls("VolumeMusic")
    /\ \E volume \in app.volumes :
         /\ call' = [NoCall EXCEPT !.op = "VolumeMusic", !.volume = volume,
                                   !.prev = music_volume]
         /\ IF VolumeIsQuery(volume)
            THEN pc' = "done" /\ ret' = music_volume /\ UNCHANGED music_volume
            ELSE pc' = "vo_lock" /\ ret' = 0 /\ music_volume' = ClampVolume(volume)
    /\ play_req' = NoReq /\ ObsReset
    /\ Commit(St) /\ AudioIdle
    /\ UNCHANGED <<music_active, ms_per_step, music_finished_hook, loaded, lock>>

\* lines 645-650
VolumeMusic_Locked ==
    /\ pc = "vo_locked"
    /\ Commit(IF music_playing # NULL
              THEN music_internal_volume(St, music_volume) ELSE St)
    /\ lock' = "free" /\ pc' = "done" /\ ret' = call.prev
    /\ AudioIdle
    /\ UNCHANGED <<music_volume, music_active, ms_per_step, music_finished_hook,
                   loaded, call, play_req, obs>>

(* ---- Mix_PauseMusic, Mix_ResumeMusic ---- *)
PauseMusic ==
    /\ Calls("PauseMusic")
    /\ music_active' = FALSE
    /\ pc' = "done" /\ call' = [NoCall EXCEPT !.op = "PauseMusic"]
    /\ ret' = 0 /\ play_req' = NoReq /\ ObsReset
    /\ Commit(St) /\ AudioIdle
    /\ UNCHANGED <<music_volume, ms_per_step, music_finished_hook, loaded, lock>>

ResumeMusic ==
    /\ Calls("ResumeMusic")
    /\ music_active' = TRUE
    /\ pc' = "done" /\ call' = [NoCall EXCEPT !.op = "ResumeMusic"]
    /\ ret' = 0 /\ play_req' = NoReq /\ ObsReset
    /\ Commit(St) /\ AudioIdle
    /\ UNCHANGED <<music_volume, ms_per_step, music_finished_hook, loaded, lock>>

(* ---- Mix_HookMusicFinished ---- *)
HookMusicFinished_Entry ==
    /\ Calls("HookMusicFinished")
    /\ pc' = "hk_lock" /\ call' = [NoCall EXCEPT !.op = "HookMusicFinished"]
    /\ ret' = 0 /\ play_req' = NoReq /\ ObsReset
    /\ Commit(St) /\ AudioIdle
    /\ UNCHANGED <<music_volume, music_active, ms_per_step, music_finished_hook,
                   loaded, lock>>

HookMusicFinished_Locked ==
    /\ pc = "hk_locked"
    /\ \E music_finished \in app.hooks : music_finished_hook' = music_finished
    /\ lock' = "free" /\ pc' = "done"
    /\ Commit(St) /\ AudioIdle
    /\ UNCHANGED <<music_volume, music_active, ms_per_step, loaded, call, ret,
                   play_req, obs>>

(* ---- Mix_PlayingMusic ---- *)
PlayingMusic_Entry ==
    /\ Calls("PlayingMusic")
    /\ pc' = "pl_lock" /\ call' = [NoCall EXCEPT !.op = "PlayingMusic"]
    /\ ret' = 0 /\ play_req' = NoReq /\ ObsReset
    /\ Commit(St) /\ AudioIdle
    /\ UNCHANGED <<music_volume, music_active, ms_per_step, music_finished_hook,
                   loaded, lock>>

PlayingResult_DecoderOnly(S) == music_internal_playing(S)

\* if ( music_playing ) playing = music_loops || music_internal_playing();
PlayingResult(S) == S.playing # NULL /\ (S.loops # 0 \/ music_internal_playing(S))

PlayingMusic_Locked ==
    /\ pc = "pl_locked"
    /\ ret' = IF PlayingResult(St) THEN 1 ELSE 0
    /\ lock' = "free" /\ pc' = "done"
    /\ Commit(St) /\ AudioIdle
    /\ UNCHANGED <<music_volume, music_active, ms_per_step, music_finished_hook,
                   loaded, call, play_req, obs>>

(* ---- open_music, close_music ---- *)
MsPerStep(mixer) == (mixer.samples * 1000) \div mixer.freq

\* called by the device open, before the callback is started
open_music ==
    /\ Calls("open_music") /\ ms_per_step = 0 /\ lock = "free" /\ mpc = "idle"
    /\ \E mixer \in DeviceSpecs : ms_per_step' = MsPerStep(mixer)
    /\ Commit([St EXCEPT !.playing = NULL])
    /\ music_volume' = ClampVolume(MIX_MAX_VOLUME)
    /\ pc' = "done" /\ call' = [NoCall EXCEPT !.op = "open_music"]
    /\ ret' = 0 /\ play_req' = NoReq /\ ObsReset
    /\ AudioIdle
    /\ UNCHANGED <<music_active, music_finished_hook, loaded, lock>>

close_music_Entry ==
    /\ Calls("close_music") /\ ms_per_step # 0
    /\ pc' = "ha_lock" /\ call' = [NoCall EXCEPT !.op = "close_music"]
    /\ ret' = 0 /\ play_req' = NoReq /\ ObsReset
    /\ Commit(St) /\ AudioIdle
    /\ UNCHANGED <<music_volume, music_active, ms_per_step, music_finished_hook,
                   loaded, lock>>

close_music_Finish ==
    /\ pc = "cl_finish"
    /\ ms_per_step' = 0
    /\ pc' = "done"
    /\ Commit(St) /\ AudioIdle
    /\ UNCHANGED <<music_volume, music_active, music_finished_hook, loaded, lock,
                   call, ret, play_req, obs>>

(* ---------------------------- specification --------------------------- *)
Next ==
    \/ MixerEnter
    \/ MixerFade
    \/ MixerProduce
    \/ LoadMUS
    \/ SDL_LockAudio
    \/ Return
    \/ FadeInMusicPos_Entry
    \/ FadeInMusicPos_Locked
    \/ FreeMusic_Entry
    \/ FreeMusic_Locked
    \/ FreeMusic_Release
    \/ HaltMusic_Entry
    \/ HaltMusic_Locked
    \/ FadeOutMusic_Entry
    \/ FadeOutMusic_Locked
    \/ VolumeMusic_Entry
    \/ VolumeMusic_Locked
    \/ PauseMusic
    \/ ResumeMusic
    \/ HookMusicFinished_Entry
    \/ HookMusicFinished_Locked
    \/ PlayingMusic_Entry
    \/ PlayingMusic_Locked
    \/ open_music
    \/ close_music_Entry
    \/ close_music_Finish

Spec == Init /\ [][Next]_vars

(* The waits of Mix_FadeInMusicPos and Mix_FreeMusic sleep 100 ms with the  *)
(* lock released, so the device gets to run the callback between two polls *)
(* and the application thread gets the lock back; every thread keeps       *)
(* running.                                                                *)
Fairness ==
    /\ SF_vars(MixerEnter)
    /\ WF_vars(MixerFade)
    /\ WF_vars(MixerProduce)
    /\ SF_vars(SDL_LockAudio)
    /\ WF_vars(FadeInMusicPos_Locked)
    /\ WF_vars(FreeMusic_Locked)

FairSpec == Spec /\ Fairness

\* music_mixer is straight-line code run by the audio thread under the audio
\* lock: once a run has started, its next part is carried out.
MixerFairSpec == Spec /\ WF_vars(MixerFade) /\ WF_vars(MixerProduce)

(* ------------------- the loader applied to a stream ------------------- *)
\* Twelve-byte beginnings of sources: one per detection rule, and ones that
\* miss a rule by one condition.
Pad4 == <<0, 0, 0, 16>>
Zero4 == <<0, 0, 0, 0>>
AVI == <<65, 86, 73, 32>>
AIFF == <<65, 73, 70, 70>>

Contents ==
    {RIFF \o Pad4 \o WAVE, RIFF \o Pad4 \o AVI, FORM \o Pad4 \o AIFF,
     OggS \o Zero4 \o Zero4, fLaC \o Zero4 \o Zero4, MThd \o Pad4 \o Zero4,
     ID3 \o <<3>> \o Zero4 \o Zero4,
     <<255, 251, 144, 0>> \o Zero4 \o Zero4,
     <<255, 227, 144, 0>> \o Zero4 \o Zero4,
     <<255, 251, 0, 0>> \o Zero4 \o Zero4,
     <<255, 251, 240, 0>> \o Zero4 \o Zero4,
     <<255, 251, 156, 0>> \o Zero4 \o Zero4,
     <<255, 249, 144, 0>> \o Zero4 \o Zero4,
     <<254, 251, 144, 0>> \o Zero4 \o Zero4,
     Zero4 \o Zero4 \o Zero4}

\* how many of the twelve bytes the source has (13: one byte of payload more)
ContentLens == {0, 3, 4, 11, 12, 13}

Prefix(c, n) == IF n <= Len(c) THEN SubSeq(c, 1, n) ELSE c \o <<1>>

\* the source begins `start` bytes into the stream (bytes "O" before it)
Streams ==
    {[null |-> FALSE, data |-> [i \in 1..start |-> 79] \o Prefix(c, n),
      pos |-> start, open |-> TRUE] :
        c \in Contents, n \in ContentLens, start \in 0..MaxStart}
    \cup {NullStream}

PlayerVars == <<music_playing, music_loops, music_volume, music_active, ms_per_step,
                music_finished_hook, fading, fade_step, fade_steps, loaded,
                wav_active, wav_volume, lock, pc, call, ret, mpc, mix_len, fired,
                play_req, restarts, app, obs>>

LoadInit ==
    /\ music_playing = NULL
    /\ music_loops = 0
    /\ music_volume = MIX_MAX_VOLUME
    /\ music_active = TRUE
    /\ ms_per_step = 0
    /\ music_finished_hook = FALSE
    /\ fading = [t \in Tracks |-> MIX_NO_FADING]
    /\ fade_step = [t \in Tracks |-> 0]
    /\ fade_steps = [t \in Tracks |-> 0]
    /\ loaded = [t \in Tracks |-> FALSE]
    /\ wav_active = FALSE
    /\ wav_volume = MIX_MAX_VOLUME
    /\ lock = "free"
    /\ pc = "idle"
    /\ call = NoCall
    /\ ret = 0
    /\ mpc = "idle"
    /\ mix_len = 0
    /\ fired = 0
    /\ play_req = NoReq
    /\ restarts = 0
    /\ app = OneTrackApp
    /\ src \in Streams
    /\ load = NoLoad
    /\ obs = NoObs

\* bytes left to read
Avail(s) == Len(s.data) - s.pos

\* the caller may use a stream it has not given away
Usable(s) == s.null \/ s.open

LoadMUSType_RW ==
    /\ load.pc = "idle" /\ Usable(src)
    /\ \E type \in MusicTypes, freesrc \in BOOLEAN, malloc_ok \in BOOLEAN,
          wave_ok \in BOOLEAN, wave_pos \in {src.pos, Len(src.data)} :
         LET R == Mix_LoadMUSType_RW(src, type, freesrc, malloc_ok, wave_ok, wave_pos)
         IN  /\ src' = R.src
             /\ load' = [pc |-> "returned", fn |-> "Mix_LoadMUSType_RW", type |-> type,
                         freesrc |-> freesrc, start |-> src.pos, avail |-> Avail(src),
                         music |-> R.music, result |-> MUS_NONE, err |-> R.err,
                         failure |-> R.failure]
    /\ UNCHANGED PlayerVars

DetectMusicType ==
    /\ load.pc = "idle" /\ ~src.null /\ src.open
    /\ LET D == detect_music_type(src)
       IN  /\ src' = D.src
           /\ load' = [NoLoad EXCEPT !.pc = "returned", !.fn = "detect_music_type",
                                     !.start = src.pos, !.avail = Avail(src),
                                     !.result = D.type, !.err = D.err]
    /\ UNCHANGED PlayerVars

LoadReturn ==
    /\ load.pc = "returned"
    /\ load' = NoLoad
    /\ UNCHANGED src
    /\ UNCHANGED PlayerVars

LoadNext == LoadMUSType_RW \/ DetectMusicType \/ LoadReturn

LoadSpec == LoadInit /\ [][LoadNext]_vars

(* ------------------------------ the claims ---------------------------- *)
\* a step of the application thread (every step of the callback moves mpc)
CallerStep == mpc' = mpc
MixerStep == mpc' # mpc

HookCount == IF music_finished_hook THEN 1 ELSE 0

\* playback ceases: there was an active track and there is none
Ceases == music_playing # NULL /\ music_playing' = NULL

FadeFieldsKept(t) ==
    /\ fading'[t] = fading[t]
    /\ fade_step'[t] = fade_step[t]
    /\ fade_steps'[t] = fade_steps[t]

SessionWritten ==
    \/ music_playing' # music_playing
    \/ music_loops' # music_loops
    \/ music_volume' # music_volume
    \/ music_active' # music_active
    \/ \E t \in Tracks : loaded[t] /\ loaded'[t] /\ ~FadeFieldsKept(t)

LockedOps == {"FadeInMusicPos", "FadeOutMusic", "HaltMusic", "VolumeMusic",
              "PauseMusic", "ResumeMusic", "FreeMusic"}

\* C1: every write of a caller-facing operation (Play/FadeIn, FadeOut, Halt,
\* SetVolume, Pause, Resume, Free) to the active track, the loop count, the
\* master volume, the pause flag or a track's fade fields is made while the
\* caller holds the device lock.
C1_LockDiscipline ==
    [][(CallerStep /\ call'.op \in LockedOps /\ SessionWritten) => lock = "caller"]_vars

\* C2 as claimed: a registered finished hook is invoked exactly once by every
\* step in which playback ceases, whatever stops it, and never by a step that
\* leaves a track active.
C2_NotifiedOnEveryStop ==
    [][fired' = IF Ceases THEN HookCount ELSE 0]_vars

HaltedByPlayOrFree == CallerStep /\ call.op \in {"FadeInMusicPos", "FreeMusic"}

\* C2 amended: a registered finished hook is invoked exactly once when playback
\* ceases by natural end with no loop pending, by fade-out completion or by
\* Mix_HaltMusic (also from Mix_FadeOutMusic(ms <= 0) and close_music); it is
\* not invoked when Mix_FadeInMusicPos halts the active track (replaced, or the
\* start failing) nor when Mix_FreeMusic halts it, nor by any other step.
C2_NotifiedOnStop ==
    [][fired' = IF Ceases /\ ~HaltedByPlayOrFree THEN HookCount ELSE 0]_vars

C2_Witness ==
    fired = 1 /\ music_playing = NULL /\ play_req.valid /\ mpc = "idle"

SeekRequested ==
    pc = "done" /\ call.op = "FadeInMusicPos" /\ call.music # NULL /\ call.position > 0

FreeReleases == pc = "fr_release" /\ pc' = "done"

\* C4: Mix_FreeMusic on the active track while it fades out changes neither the
\* active track nor its fade state (the callback resolves the fade-out); when
\* the track is released it is not the active track and not fading out; the
\* active track is always an allocated one.
C4_FreeWaitsForFadeOut ==
    [][/\ music_playing' # NULL => loaded'[music_playing']
       /\ FreeReleases => (music_playing # call.music
                           /\ fading[call.music] # MIX_FADING_OUT)
       /\ (CallerStep /\ call.op = "FreeMusic" /\ call.music # NULL
             /\ music_playing = call.music /\ fading[call.music] = MIX_FADING_OUT)
          => UNCHANGED <<music_playing, fading, loaded>>]_vars

C4_Witness == pc = "fr_release" /\ call.waited /\ music_playing = NULL

\* C5: while the active track fades out, no step of Mix_FadeInMusicPos (for any
\* track argument) changes the active track or its fade fields.
C5_PlayWaitsForFadeOut ==
    [][(CallerStep /\ call'.op = "FadeInMusicPos" /\ FadeInMustWait)
       => (music_playing' = music_playing /\ FadeFieldsKept(music_playing))]_vars

Waiting == call.waited /\ pc \in {"fi_relock", "fi_locked", "fr_relock", "fr_loop"}

\* C6: a Play or Free call waiting out a fade-out eventually proceeds, in every
\* state, paused or not.
C6_WaitEnds == Waiting ~> ~Waiting

NaturalEndSeen == MixerStep /\ mpc = "produce" /\ ~wav_active

\* C7: after Play with loops = 1 as after Play with loops = 0 the loop count is
\* 0, the track is never restarted, and the callback that sees the stream ended
\* halts it and invokes the registered hook once.
C7_LoopNormalization ==
    [][(play_req'.valid /\ play_req'.loops \in {0, 1})
       => /\ music_loops' = 0
          /\ restarts' = 0
          /\ NaturalEndSeen => (music_playing' = NULL /\ fired' = HookCount)]_vars

C7_Witness ==
    /\ play_req.valid /\ play_req.loops = 1
    /\ music_playing = NULL /\ fired = 1 /\ restarts = 0

VolumeCalled == pc = "idle" /\ call'.op = "VolumeMusic"

\* C9: the master volume is always within 0..MIX_MAX_VOLUME; Mix_VolumeMusic(v)
\* stores MIX_MAX_VOLUME for v above it and v for v within the range; for v < 0
\* it returns at once with nothing changed and nothing dispatched; every call
\* returns the master volume there was when it was made.
C9_VolumeClamped ==
    [][/\ music_volume' \in 0..MIX_MAX_VOLUME
       /\ VolumeCalled =>
            LET v == call'.volume
            IN  /\ v < 0 => /\ pc' = "done" /\ ret' = music_volume
                            /\ UNCHANGED <<music_playing, music_loops, music_volume,
                                           music_active, fading, fade_step, fade_steps,
                                           wav_volume, wav_active, ms_per_step>>
                /\ v > MIX_MAX_VOLUME => music_volume' = MIX_MAX_VOLUME
                /\ v \in 0..MIX_MAX_VOLUME => music_volume' = v
                /\ call'.prev = music_volume
       /\ (pc = "vo_locked" /\ CallerStep) =>
            /\ ret' = call.prev
            /\ music_volume' = music_volume
            /\ music_playing # NULL => wav_volume' = music_volume]_vars

C9_Witness ==
    /\ pc = "done" /\ call.op = "VolumeMusic" /\ call.volume > MIX_MAX_VOLUME
    /\ ret < MIX_MAX_VOLUME /\ music_volume = MIX_MAX_VOLUME /\ music_playing # NULL

PlayRejected ==
    pc = "idle" /\ call'.op = "FadeInMusicPos"
    /\ (ms_per_step = 0 \/ call'.music = NULL)

\* C10: Mix_FadeInMusicPos called while the device is not open (ms_per_step = 0,
\* as close_music leaves it) or with a NULL track returns -1 and changes neither
\* the session state nor any track's fade fields.
C10_PlayRejected ==
    [][/\ PlayRejected =>
            /\ pc' = "done" /\ ret' = -1
            /\ UNCHANGED <<music_playing, music_loops, music_active, music_volume,
                           fading, fade_step, fade_steps>>
       /\ (pc = "cl_finish" /\ CallerStep) => (ms_per_step' = 0 /\ music_playing' = NULL)]_vars

C10_Witness ==
    /\ pc = "done" /\ call.op = "FadeInMusicPos" /\ ret = -1
    /\ call.music # NULL /\ ms_per_step = 0 /\ fade_step[call.music] > 0

\* what Mix_PlayingMusic would return in this state
IsPlaying == PlayingResult(St)

PlayingQueried == pc = "pl_locked" /\ CallerStep

\* the stream has reached its end and a loop is pending
LoopPending == music_playing # NULL /\ ~wav_active /\ music_loops # 0

\* the callback is about to complete the fade-out of the active track
FadeOutCompletes ==
    /\ mpc = "fade" /\ music_playing # NULL /\ music_active
    /\ fading[music_playing] = MIX_FADING_OUT
    /\ ~FadeContinues(fade_step[music_playing], fade_steps[music_playing])

\* C11 as claimed: Mix_PlayingMusic returns true exactly when a track is active
\* and (the loop count is nonzero or the decoder is active); no step of the
\* callback that finds the stream ended with a loop pending leaves Mix_PlayingMusic
\* false, and no step of the callback turns it from false to true.
C11_PlayingAcrossLoop ==
    [][/\ PlayingQueried
          => ret' = IF music_playing # NULL /\ (music_loops # 0 \/ wav_active)
                    THEN 1 ELSE 0
       /\ (MixerStep /\ LoopPending) => IsPlaying'
       /\ (MixerStep /\ ~IsPlaying) => ~IsPlaying']_vars

\* C11 amended: the returned value is as claimed, and a callback never turns it
\* from false to true; a step of the callback that finds the stream ended with
\* a loop pending leaves it true except when it completes a fade-out (the
\* track is halted whatever the loop count) or when it restarts the track with
\* the last loop and the restarted stream ends again within the same buffer.
C11_PlayingMusic ==
    [][/\ PlayingQueried
          => ret' = IF music_playing # NULL /\ (music_loops # 0 \/ wav_active)
                    THEN 1 ELSE 0
       /\ (MixerStep /\ LoopPending /\ mpc = "fade")
          => (IsPlaying' <=> ~FadeOutCompletes)
       /\ (MixerStep /\ LoopPending /\ mpc = "produce")
          => (IsPlaying' \/ (music_loops = 1 /\ music_loops' = 0 /\ ~wav_active'))
       /\ (MixerStep /\ ~IsPlaying) => ~IsPlaying']_vars

C11_Witness ==
    /\ pc = "done" /\ call.op = "PlayingMusic" /\ ret = 1
    /\ music_playing # NULL /\ ~wav_active /\ music_loops # 0

LoadFailed ==
    load.pc = "returned" /\ load.fn = "Mix_LoadMUSType_RW" /\ ~src.null /\ ~load.music

\* C12: whenever Mix_LoadMUSType_RW fails on a stream (short read during
\* detection, no decoder for the format, the decoder rejecting the payload,
\* allocation failure) it returns no track, and if freesrc is false the stream
\* is still open and its read position is the one it had before the call.
C12_LoadFailureRestores ==
    /\ (load.pc = "returned" /\ load.failure # "none") => ~load.music
    /\ (LoadFailed /\ ~load.freesrc) => (src.open /\ src.pos = load.start)

Detected == load.pc = "returned" /\ load.fn = "detect_music_type" /\ load.avail >= 12

\* the n bytes from the i-th byte of the source the call was made on
SourceBytes(i, n) == SubSeq(src.data, load.start + i, load.start + i + n - 1)

\* sync bits 0xFF then top nibble 0xF, bitrate nibble neither 0 nor 15, sample
\* rate bits not both set, layer bits not both zero
FrameSyncValid ==
    LET b1 == SourceBytes(1, 1)[1]
        b2 == SourceBytes(2, 1)[1]
        b3 == SourceBytes(3, 1)[1]
    IN  /\ b1 = 255 /\ b2 >= 240
        /\ b3 \div 16 \notin {0, 15}
        /\ (b3 \div 4) % 4 # 3
        /\ (b2 \div 2) % 4 # 0

RuleTag ==
    IF (SourceBytes(1, 4) = RIFF /\ SourceBytes(9, 4) = WAVE) \/ SourceBytes(1, 4) = FORM
    THEN MUS_WAV
    ELSE IF SourceBytes(1, 4) = OggS THEN MUS_OGG
    ELSE IF SourceBytes(1, 4) = fLaC THEN MUS_FLAC
    ELSE IF SourceBytes(1, 4) = MThd THEN MUS_MID
    ELSE IF SourceBytes(1, 3) = ID3 \/ FrameSyncValid THEN MUS_MP3
    ELSE MUS_MOD

\* C13: detect_music_type on a stream with at least 12 readable bytes returns
\* the tag of the ordered rules (RIFF with WAVE at offset 8, or FORM: WAV; OggS:
\* OGG; fLaC: FLAC; MThd: MIDI; ID3 or a valid frame-sync header: MP3; anything
\* else: MOD), sets no error, and leaves the read position where it was.
C13_DetectionRules ==
    Detected => /\ load.result = RuleTag
                /\ load.err = ""
                /\ src.pos = load.start
                /\ src.open

C13_Witness ==
    /\ Detected /\ load.start > 0
    /\ load.result = MUS_MP3 /\ SourceBytes(1, 3) # ID3

PauseOrResume == pc = "idle" /\ call'.op \in {"PauseMusic", "ResumeMusic"}

PlayerKept ==
    UNCHANGED <<music_playing, music_loops, music_volume, fading, fade_step,
                fade_steps, wav_active, wav_volume>>

\* Mix_PauseMusic and Mix_ResumeMusic write the pause flag and nothing else; a
\* callback that finds the flag cleared returns having changed nothing,
\* dispatched nothing and notified nobody
PauseFrame ==
    /\ PauseOrResume => /\ PlayerKept /\ fired' = 0
                        /\ music_active' = (call'.op = "ResumeMusic")
    /\ (MixerStep /\ mpc = "fade" /\ ~music_active)
       => (PlayerKept /\ fired' = 0 /\ mpc' = "idle" /\ UNCHANGED music_active)

\* C14 as claimed: Pause and Resume change only the pause flag, a callback
\* made while paused changes nothing, dispatches nothing and fires no
\* notification, and no operation other than Pause and Resume changes the flag.
C14_PauseOrthogonal ==
    [][/\ PauseFrame
       /\ music_active' # music_active => PauseOrResume]_vars

PlayStarts == pc = "fi_locked" /\ CallerStep /\ ~FadeInMustWait

\* C14 amended: as claimed, except that the pause flag is also written by
\* Mix_FadeInMusicPos: once past its checks and its wait for a fade-out it sets
\* the flag (un-pauses), whether or not the start then succeeds; while it
\* waits, and when it is rejected, it leaves the flag alone.
C14_PauseAndPlay ==
    [][/\ PauseFrame
       /\ PlayStarts => music_active'
       /\ music_active' # music_active => (PauseOrResume \/ PlayStarts)]_vars

C14_Witness ==
    /\ mpc = "fade" /\ ~music_active /\ music_playing # NULL
    /\ fading[music_playing] = MIX_FADING_OUT /\ fade_step[music_playing] > 0
    /\ music_loops # 0 /\ music_finished_hook

\* Mix_FadeOutMusic(ms > 0) reaches its locked part with a track active
FadeOutApplies == pc = "fo_locked" /\ CallerStep /\ music_playing # NULL

\* a / b rounded to the nearest integer, for a >= 0 and b > 0
Round(a, b) == (2 * a + b) \div (2 * b)

\* C15: Mix_FadeOutMusic(ms > 0) on an active track that is fading sets its
\* fade_step to round(elapsed * new_total / old_total), with elapsed the
\* fade_step of a fade-out and old_total - fade_step + 1 of a fade-in, and
\* new_total the step count computed from ms; on a track not fading it sets
\* fade_step to 0; in both cases the track is then fading out over new_total
\* steps.
C15_FadeOutRescales ==
    [][FadeOutApplies =>
        LET m == music_playing
            new_total == (call.ms + ms_per_step - 1) \div ms_per_step
            old_total == fade_steps[m]
            elapsed == IF fading[m] = MIX_FADING_OUT THEN fade_step[m]
                       ELSE old_total - fade_step[m] + 1
        IN  /\ pc' = "done" /\ ret' = 1
            /\ fading'[m] = MIX_FADING_OUT
            /\ fade_steps'[m] = new_total
            /\ IF fading[m] = MIX_NO_FADING
               THEN fade_step'[m] = 0
               ELSE /\ old_total # 0
                    /\ fade_step'[m] = Round(elapsed * new_total, old_total)]_vars

\* the callback completes the fade-in of the active track
FadeInCompletes ==
    /\ MixerStep /\ music_playing # NULL /\ music_playing' = music_playing
    /\ fading[music_playing] = MIX_FADING_IN
    /\ fading'[music_playing] = MIX_NO_FADING

\* C16: when the callback switches the active track from MIX_FADING_IN to
\* MIX_NO_FADING the volume last dispatched to the decoder is the master volume,
\* and the switch is made by the callback that finds fade_step = fade_steps
\* (fade_steps = ms / ms_per_step callbacks after the fade began).
C16_FadeInReachesFull ==
    [][FadeInCompletes =>
         /\ wav_volume' = music_volume'
         /\ fade_step[music_playing] = fade_steps[music_playing]]_vars

\* the device has just invoked the callback (not a nested run of it)
DeviceInvocation == mpc = "fade" /\ mix_len = BufLen

FadeInProgress == MixerActive /\ fading[music_playing] # MIX_NO_FADING

\* C17: a device invocation of the callback that finds a fade in progress and
\* the device not paused increases the active track's fade_step by one, and
\* nothing else in the same invocation (the nested run that fills the rest of
\* the buffer after a loop included) increases any fade_step again.
C17_OneStepPerCallback ==
    [][/\ (MixerStep /\ DeviceInvocation /\ FadeInProgress)
          => fade_step'[music_playing] = fade_step[music_playing] + 1
       /\ (MixerStep /\ fade_step' # fade_step) => obs.incs = 0]_vars

\* the callback is at a halt-or-loop check that will restart the track
RestartPending ==
    mpc = "produce" /\ music_playing # NULL /\ ~wav_active /\ music_loops # 0

\* C18: when music_halt_or_loop restarts the active track at its natural end
\* (music_loops # 0) the track is still the active one, its stream is started
\* again, and its fading, fade_step and fade_steps are what they were; the
\* same holds across the whole callback step unless the step goes on to halt
\* the track.
C18_LoopKeepsFade ==
    [][(MixerStep /\ RestartPending) =>
         LET S1 == music_halt_or_loop(St)
         IN  /\ S1.playing = music_playing /\ S1.wav_active
             /\ S1.fading = fading
             /\ S1.fade_step = fade_step
             /\ S1.fade_steps = fade_steps
             /\ music_playing' # NULL
                => (music_playing' = music_playing /\ FadeFieldsKept(music_playing))]_vars

C18_Witness ==
    /\ play_req.valid /\ restarts = 1 /\ music_playing # NULL
    /\ fading[music_playing] = MIX_FADING_IN /\ fade_step[music_playing] = 2
    /\ wav_active /\ mpc = "idle"

\* Mix_FadeOutMusic(ms > 0) begins the fade-out of a track that is not fading
FadeOutBegins == FadeOutApplies /\ fading[music_playing] = MIX_NO_FADING

\* C19: Mix_FadeOutMusic(ms > 0) on an active track that is not fading starts a
\* fade-out at step 0 over fade_steps >= 1; with no other call made since, the
\* track is no longer active once fade_steps + 1 callbacks have run it (paused
\* callbacks do not run it), whatever the loop count, and when a callback ends
\* its playback the track is not fading and the registered hook is invoked
\* once; the callback that completes the fade-out halts the track, invokes the
\* hook and returns at once: no samples produced, no halt-or-loop check (loop
\* count and restarts untouched).
C19_FadeOutCompletion ==
    [][/\ FadeOutBegins
          => /\ obs'.fo /\ fading'[music_playing] = MIX_FADING_OUT
             /\ fade_step'[music_playing] = 0 /\ fade_steps'[music_playing] >= 1
       /\ (obs'.fo /\ music_playing' # NULL)
          => /\ obs'.calls <= fade_steps'[music_playing']
             /\ fading'[music_playing'] = MIX_FADING_OUT
       /\ (obs.fo /\ MixerStep /\ Ceases)
          => (fading'[music_playing] = MIX_NO_FADING /\ fired' = HookCount)
       /\ (MixerStep /\ FadeOutCompletes)
          => /\ music_playing' = NULL /\ ~wav_active'
             /\ fading'[music_playing] = MIX_NO_FADING
             /\ fired' = HookCount
             /\ mpc' = "idle"
             /\ music_loops' = music_loops /\ restarts' = restarts]_vars

C19_Witness ==
    /\ obs.fo /\ obs.calls = 3 /\ music_playing = NULL /\ mpc = "idle"
    /\ fired = 1 /\ music_loops # 0 /\ music_active

\* the callback is about to dispatch WAVStream_PlaySome for a fading track
FadingDispatch ==
    /\ MixerStep /\ mpc = "produce"
    /\ fading[music_playing] # MIX_NO_FADING
    /\ music_internal_playing(music_halt_or_loop(St))

\* C20: a callback that finds a fade going on dispatches the linear fade volume
\* (music_volume * step / steps fading in, music_volume * (steps - step) / steps
\* fading out, step being the incremented fade_step), and that volume is the
\* one in effect at the decoder when WAVStream_PlaySome is dispatched in that
\* callback, also when the halt-or-loop check before it restarts the track.
C20_FadeVolumeHeard ==
    [][/\ (MixerStep /\ mpc = "fade" /\ FadeInProgress
            /\ fade_step[music_playing] < fade_steps[music_playing])
          => wav_volume' = FadeVolume(fading[music_playing],
                                      fade_step[music_playing] + 1,
                                      fade_steps[music_playing])
       /\ FadingDispatch => music_halt_or_loop(St).wav_volume = wav_volume]_vars

\* C21: whenever the active track has fading # MIX_NO_FADING its fade_steps is
\* positive, and no call ends in a division by zero: neither the rescaling of
\* Mix_FadeOutMusic (by the old fade_steps) nor the volume computation of the
\* callback (by fade_steps), whatever the fade times given.
C21_NoDivisionByZero ==
    /\ (music_playing # NULL /\ fading[music_playing] # MIX_NO_FADING)
       => fade_steps[music_playing] > 0
    /\ pc # "fault"

\* music_mixer calls itself on the rest of the buffer
MixerReenters == MixerStep /\ mpc = "produce" /\ mpc' = "fade"

\* C22: within a device callback the run in progress works on 1..BufLen bytes;
\* the fade handling of a run is followed by its produce part on the same
\* length or by the return; music_mixer calls itself only on a remaining
\* length that is positive and strictly shorter, whatever the decoder returns
\* and whatever the loop count; and every callback that has been entered
\* returns (the callback is outside music_mixer again and again).
C22_MixerTerminates ==
    /\ [][/\ mpc' # "idle" => mix_len' \in 1..BufLen
          /\ MixerReenters => (mix_len' >= 1 /\ mix_len' < mix_len)
          /\ (MixerStep /\ mpc = "fade")
             => (mpc' = "idle" \/ (mpc' = "produce" /\ mix_len' = mix_len))
          /\ (MixerStep /\ mpc = "idle") => (mpc' = "fade" /\ mix_len' = BufLen)
          /\ CallerStep => mix_len' = mix_len]_vars
    /\ []<>(mpc = "idle")

C22_Witness ==
    /\ mpc = "fade" /\ mix_len >= 1 /\ mix_len < BufLen
    /\ music_loops < 0 /\ restarts > 1 /\ obs.incs > 0

====
